---- MODULE Spec2Model ----
(***************************************************************************)
(* Model of the usePermission hook and of openPermissionSettings           *)
(* (src/PermissionSettingsModal/index.tsx).                                *)
(*                                                                         *)
(* One session (one mount of the hook) is modelled.  Every call of         *)
(* request() gets the next call id; the record call[c] holds the locals of *)
(* that invocation of maybeRequestPermission (and of the                   *)
(* openPermissionSettings it may have started) together with the position  *)
(* at which its async body is suspended.  An action is one run-to-         *)
(* suspension step of the event loop: the synchronous code between two     *)
(* awaits, with the outcome of the awaited promise as the action's input.  *)
(*                                                                         *)
(* inputs.type only selects which provider functions and which texts are   *)
(* used; every PermissionType takes the same path, so it is not a          *)
(* variable.  modal.open is completed by modal.confirm(); the failures     *)
(* modelled are those of check(), ask() and Asset.loadAsync.               *)
(***************************************************************************)
EXTENDS Integers, FiniteSets, Sequences, TLC

\* ------------------------------------------------------------------ bounds
MaxCalls == 2
MaxElapsed == 1001

\* --------------------------------------------------------------- constants
DebounceMs == 1000

CallIds == 1..MaxCalls

\* enum PermissionState
Granted == "Granted"
Denied == "Denied"
UnexpectedError == "UnexpectedError"
NotYetRequested == "NotYetRequested"
Requesting == "Requesting"
PermissionState == {Granted, Denied, UnexpectedError, NotYetRequested, Requesting}

\* enum PermissionStatus of the provider
GRANTED == "granted"
DENIED == "denied"
UNDETERMINED == "undetermined"
PermissionStatus == {GRANTED, DENIED, UNDETERMINED}

\* the statuses the branches on askResponse.status provide for: the members
\* of the enum and, in the final else, any other value
AskStatus == PermissionStatus \cup {"unrecognized"}

\* PermissionResponse as far as the code reads it
PermissionResponse == [status : PermissionStatus, canAskAgain : BOOLEAN]

\* values of AppState
AppStateStatus == {"active", "background", "inactive"}

\* the time that passes between opening the settings and an event: the code
\* only compares it with the debounce, so the clock steps to the debounce
\* itself or to the first value above it
TickSteps == {DebounceMs, DebounceMs + 1}

None == "none"
\* checkResponse before check() has returned
NoResponse == [status |-> None, canAskAgain |-> FALSE]
Pending == "pending"

\* positions of one invocation of maybeRequestPermission
\*   idle      request() not called yet under this id
\*   check     suspended at  await check()
\*   loading   suspended in openPermissionSettings at  await Promise.all(...)
\*   modal     suspended in openPermissionSettings at  await modal.open(...)
\*   waiting   suspended in openPermissionSettings at  await new Promise(...)
\*   ask       suspended at  await ask()
\*   dialog    suspended at  await modal.open(<BasicModal/>)
\*   resolved  resolve(...) has been called
\*   rejected  the async executor threw: nothing will ever call resolve
Positions == {"idle", "check", "loading", "modal", "waiting", "ask", "dialog",
              "resolved", "rejected"}
InFlight == {"check", "loading", "modal", "waiting", "ask", "dialog"}
InSettingsFlow == {"loading", "modal", "waiting"}

VARIABLES
    autoRequest,        \* inputs.options.autoRequest
    noRender,           \* inputs.options.noRender
    mountStatus,        \* "rendered" (mount effect not run yet), "mounted", "unmounted"
    savedState,         \* savedState.current
    twinState,          \* savedState.current of the same session run with the
                        \* opposite noRender and the same calls and outcomes
    savedIsAutoRequest, \* savedIsAutoRequest.current
    forceUpdates,       \* number of forceUpdate() calls
    appState,           \* current AppState
    nextCall,           \* id the next request() call gets
    call                \* per call id: the invocation's locals and counters

vars == <<autoRequest, noRender, mountStatus, savedState, twinState,
          savedIsAutoRequest, forceUpdates, appState, nextCall, call>>

inputs == <<autoRequest, noRender>>

\* the fields checks .. reports count calls, settingsDone, dialogDone and
\* failure record what has happened to the invocation; ignoredActive records
\* that the listener of the running settings flow has seen an 'active' event
\* it did not accept, and is dropped when the following ask() settles;
\* unmountedInFlight records that the component unmounted while the
\* invocation was suspended
NewCall ==
    [pc |-> "idle", isAutoRequest |-> FALSE, acquired |-> FALSE,
     checkResponse |-> NoResponse, askResponse |-> None,
     result |-> Pending, twinResult |-> Pending, failure |-> None,
     checks |-> 0, asks |-> 0, settingsOpens |-> 0, settingsDone |-> FALSE,
     dialogs |-> 0, dialogDone |-> FALSE, reports |-> 0,
     listening |-> FALSE, millisSinceSettingsOpened |-> 0,
     ignoredActive |-> FALSE, unmountedInFlight |-> FALSE]

Init ==
    /\ autoRequest \in BOOLEAN
    /\ noRender \in BOOLEAN
    /\ mountStatus = "rendered"
    /\ savedState = IF autoRequest THEN Requesting ELSE NotYetRequested
    /\ twinState = savedState
    /\ savedIsAutoRequest = FALSE
    /\ forceUpdates = 0
    /\ appState = "active"
    /\ nextCall = 1
    /\ call = [c \in CallIds |-> NewCall]

\* ------------------------------------------------------- branch conditions

\* variant: the guard compares with the wrong member of the enum
AlreadyGranted_WrongMember(prevState) == prevState = Denied

\* variant: UnexpectedError is treated as final, like Granted
AlreadyGranted_OrError(prevState) == prevState \in {Granted, UnexpectedError}

\* variant: the Granted guard is missing
AlreadyGranted_Never(prevState) == FALSE

\* prevState === PermissionState.Granted
AlreadyGranted(prevState) == prevState = Granted

\* variant: the negation of isAutoRequest is lost
RequestInProgress_NoNegation(prevState, isAutoRequest) ==
    prevState = Requesting /\ isAutoRequest

\* variant: every state but the initial one counts as busy
RequestInProgress_AfterFirst(prevState, isAutoRequest) ==
    prevState # NotYetRequested /\ ~isAutoRequest

\* prevState === PermissionState.Requesting && !isAutoRequest
RequestInProgress(prevState, isAutoRequest) ==
    prevState = Requesting /\ ~isAutoRequest

\* variant: a granted check counts only when canAskAgain is set as well
CheckIsGranted_NeedsCanAsk(resp) == resp.status = GRANTED /\ resp.canAskAgain

\* variant: the granted check is not recognised, the sequence goes on to ask()
CheckIsGranted_Never(resp) == FALSE

\* checkResponse.status === PermissionStatus.GRANTED
CheckIsGranted(resp) == resp.status = GRANTED

\* variant: the negation of canAskAgain is lost
MustOpenSettings_NoNegation(resp) == resp.canAskAgain

\* variant: the settings flow runs for every check that is not granted
MustOpenSettings_Always(resp) == TRUE

\* !checkResponse.canAskAgain, before ask()
MustOpenSettings(resp) == ~resp.canAskAgain

\* variant: the dialog is never shown
ShowsSettingFailure_Never(resp) == FALSE

\* !checkResponse.canAskAgain, after ask() returned DENIED
ShowsSettingFailure(resp) == ~resp.canAskAgain

\* variant: every status other than granted is taken for a denial
StateAfterAsk_ElseDenied(status) ==
    IF status = GRANTED THEN Granted ELSE Denied

\* the state the branches on askResponse.status settle on
StateAfterAsk(status) ==
    IF status = GRANTED THEN Granted
    ELSE IF status = DENIED THEN Denied
    ELSE IF status = UNDETERMINED THEN UnexpectedError
    ELSE UnexpectedError

\* captureSentry calls of the branches on askResponse.status
ReportsAfterAsk(status) ==
    IF status = GRANTED THEN 0
    ELSE IF status = DENIED THEN 0
    ELSE IF status = UNDETERMINED THEN 1
    ELSE 1

\* variant: the comparison admits the bound itself
DebouncePassed_AtBound(millis) == millis >= DebounceMs

\* millisSinceSettingsOpened > 1000
DebouncePassed(millis) == millis > DebounceMs

\* ------------------------------------------------------------ state writes

\* variant: the assignment is moved under the noRender test
setStateWith_OnlyIfRendered(current, suppressed, nextState) ==
    IF current # nextState /\ ~suppressed THEN nextState ELSE current

\* setState in a session whose savedState.current is `current` and whose
\* options.noRender is `suppressed`: the value of savedState.current afterwards
setStateWith(current, suppressed, nextState) ==
    IF current # nextState THEN nextState ELSE current

\* variant: forceUpdate() is called on every setState that is not suppressed
forceUpdateWith_Always(current, suppressed, nextState) ==
    IF ~suppressed THEN 1 ELSE 0

\* setState in such a session: the forceUpdate() calls it makes
forceUpdateWith(current, suppressed, nextState) ==
    IF current # nextState /\ ~suppressed THEN 1 ELSE 0

\* setState: the value of savedState.current after setState(nextState)
setState(nextState) == setStateWith(savedState, noRender, nextState)

\* setState: the forceUpdate() calls made by setState(nextState)
forceUpdate(nextState) == forceUpdateWith(savedState, noRender, nextState)

\* the `state` field of the object the hook returns
apiState == IF noRender THEN "undefined" ELSE savedState

\* variant: resolve is handed the state read before setState ran
resolveValue_Stale(nextState) == savedState

\* the value setStateAndResolve(nextState) passes to resolve
resolveValue(nextState) == nextState

\* variant: after the unmount nothing is written and nothing resolved
setStateAndResolve_UnlessUnmounted(c, nextState, sentry, locals) ==
    /\ mountStatus # "unmounted"
    /\ savedState' = setState(nextState)
    /\ twinState' = setStateWith(twinState, ~noRender, nextState)
    /\ forceUpdates' = forceUpdates + forceUpdate(nextState)
    /\ call' = [call EXCEPT ![c] =
            [locals EXCEPT !.pc = "resolved",
                           !.result = resolveValue(nextState),
                           !.twinResult = resolveValue(nextState),
                           !.reports = @ + sentry]]

\* setStateAndResolve of call c, which also emits `sentry` reports before it
setStateAndResolve(c, nextState, sentry, locals) ==
    /\ savedState' = setState(nextState)
    /\ twinState' = setStateWith(twinState, ~noRender, nextState)
    /\ forceUpdates' = forceUpdates + forceUpdate(nextState)
    /\ call' = [call EXCEPT ![c] =
            [locals EXCEPT !.pc = "resolved",
                           !.result = resolveValue(nextState),
                           !.twinResult = resolveValue(nextState),
                           !.reports = @ + sentry]]

\* ------------------------------------------------------------------ request

\* variant: the flag is read but not cleared
isAutoRequestAfterCall_Kept(flag) == flag

\* savedIsAutoRequest.current = false, right after the flag was read
isAutoRequestAfterCall(flag) == FALSE

\* maybeRequestPermission under call id c; flag is savedIsAutoRequest.current
\* at the time of the call
maybeRequestPermission(c, flag) ==
    LET isAutoRequest == flag
        prevState == savedState
        twinPrevState == twinState
        \* what the twin session resolves this call with, if it does at once
        twinResolved ==
            IF AlreadyGranted(twinPrevState)
               \/ RequestInProgress(twinPrevState, isAutoRequest)
            THEN twinPrevState ELSE Pending
        started == [call[c] EXCEPT !.isAutoRequest = isAutoRequest,
                                   !.twinResult = twinResolved]
    IN  /\ savedIsAutoRequest' = isAutoRequestAfterCall(flag)
        /\ nextCall' = c + 1
        /\ twinState' = IF twinResolved # Pending THEN twinState
                        ELSE setStateWith(twinState, ~noRender, Requesting)
        /\ IF AlreadyGranted(prevState) THEN
               /\ call' = [call EXCEPT ![c] =
                      [started EXCEPT !.pc = "resolved", !.result = prevState,
                                      !.reports = @ + 1]]
               /\ UNCHANGED <<savedState, forceUpdates>>
           ELSE IF RequestInProgress(prevState, isAutoRequest) THEN
               /\ call' = [call EXCEPT ![c] =
                      [started EXCEPT !.pc = "resolved", !.result = prevState,
                                      !.reports = @ + 1]]
               /\ UNCHANGED <<savedState, forceUpdates>>
           ELSE
               /\ savedState' = setState(Requesting)
               /\ forceUpdates' = forceUpdates + forceUpdate(Requesting)
               /\ call' = [call EXCEPT ![c] =
                      [started EXCEPT !.pc = "check", !.acquired = TRUE,
                                      !.checks = @ + 1]]

\* a caller invokes request()
Request ==
    /\ nextCall <= MaxCalls
    /\ maybeRequestPermission(nextCall, savedIsAutoRequest)
    /\ UNCHANGED <<inputs, mountStatus, appState>>

\* variant: the mount effect forgets to set savedIsAutoRequest.current
requestOnMount_NoFlag ==
    /\ mountStatus = "rendered"
    /\ mountStatus' = "mounted"
    /\ IF autoRequest THEN
           /\ nextCall <= MaxCalls
           /\ maybeRequestPermission(nextCall, savedIsAutoRequest)
       ELSE
           UNCHANGED <<savedState, twinState, savedIsAutoRequest, forceUpdates,
                     nextCall, call>>
    /\ UNCHANGED <<inputs, appState>>

\* the mount effect
requestOnMount ==
    /\ mountStatus = "rendered"
    /\ mountStatus' = "mounted"
    /\ IF autoRequest THEN
           /\ nextCall <= MaxCalls
           /\ maybeRequestPermission(nextCall, TRUE)
       ELSE
           UNCHANGED <<savedState, twinState, savedIsAutoRequest, forceUpdates,
                     nextCall, call>>
    /\ UNCHANGED <<inputs, appState>>

\* the owning component unmounts; the hook registers no cleanup
Unmount ==
    /\ mountStatus = "mounted"
    /\ mountStatus' = "unmounted"
    /\ call' = [c \in CallIds |->
          IF call[c].pc \in InFlight
          THEN [call[c] EXCEPT !.unmountedInFlight = TRUE]
          ELSE call[c]]
    /\ UNCHANGED <<inputs, savedState, twinState, savedIsAutoRequest, forceUpdates,
                   appState, nextCall>>

\* -------------------------------------------------------------------- check

\* await check() returns resp
CheckResolves(c, resp) ==
    /\ call[c].pc = "check"
    /\ LET locals == [call[c] EXCEPT !.checkResponse = resp]
       IN  IF CheckIsGranted(resp) THEN
               setStateAndResolve(c, Granted, 0, locals)
           ELSE IF MustOpenSettings(resp) THEN
               /\ call' = [call EXCEPT ![c] =
                      [locals EXCEPT !.pc = "loading", !.settingsOpens = @ + 1]]
               /\ UNCHANGED <<savedState, twinState, forceUpdates>>
           ELSE
               /\ call' = [call EXCEPT ![c] =
                      [locals EXCEPT !.pc = "ask", !.asks = @ + 1]]
               /\ UNCHANGED <<savedState, twinState, forceUpdates>>
    /\ UNCHANGED <<inputs, mountStatus, savedIsAutoRequest, appState, nextCall>>

\* variant: check() is awaited outside a try, so its failure ends the executor
CheckRejects_Uncaught(c) ==
    /\ call[c].pc = "check"
    /\ call' = [call EXCEPT ![c].pc = "rejected", ![c].failure = "check"]
    /\ UNCHANGED <<inputs, mountStatus, savedState, twinState, savedIsAutoRequest,
                   forceUpdates, appState, nextCall>>

\* await check() throws
CheckRejects(c) ==
    /\ call[c].pc = "check"
    /\ setStateAndResolve(c, UnexpectedError, 1,
                          [call[c] EXCEPT !.failure = "check"])
    /\ UNCHANGED <<inputs, mountStatus, savedIsAutoRequest, appState, nextCall>>

\* ---------------------------------------------------- openPermissionSettings

\* await Promise.all(... Asset.loadAsync ...) completes; modal.open is called
AssetsLoaded(c) ==
    /\ call[c].pc = "loading"
    /\ call' = [call EXCEPT ![c].pc = "modal"]
    /\ UNCHANGED <<inputs, mountStatus, savedState, twinState, savedIsAutoRequest,
                   forceUpdates, appState, nextCall>>

\* an Asset.loadAsync rejects: openPermissionSettings rejects, and the await
\* in maybeRequestPermission, which is outside every try, throws
AssetsFail(c) ==
    /\ call[c].pc = "loading"
    /\ call' = [call EXCEPT ![c].pc = "rejected", ![c].failure = "settings"]
    /\ UNCHANGED <<inputs, mountStatus, savedState, twinState, savedIsAutoRequest,
                   forceUpdates, appState, nextCall>>

\* goToSettings: modal.confirm() ends await modal.open; settingsOpenedAt is
\* taken, openAppSettings() runs and the AppState listener is added
goToSettings(c) ==
    /\ call[c].pc = "modal"
    /\ call' = [call EXCEPT ![c].pc = "waiting", ![c].listening = TRUE,
                            ![c].millisSinceSettingsOpened = 0]
    /\ UNCHANGED <<inputs, mountStatus, savedState, twinState, savedIsAutoRequest,
                   forceUpdates, appState, nextCall>>

\* time passes while a listener waits
Tick(d) ==
    /\ \E c \in CallIds : call[c].listening
    /\ \A c \in CallIds :
          call[c].listening => call[c].millisSinceSettingsOpened + d <= MaxElapsed
    /\ call' = [c \in CallIds |->
          IF call[c].listening
          THEN [call[c] EXCEPT !.millisSinceSettingsOpened = @ + d]
          ELSE call[c]]
    /\ UNCHANGED <<inputs, mountStatus, savedState, twinState, savedIsAutoRequest,
                   forceUpdates, appState, nextCall>>

\* handleAppStateChange of call c lets the flow complete on this event
FlowCompletes(c, nextAppState) ==
    /\ call[c].listening
    /\ nextAppState = "active"
    /\ DebouncePassed(call[c].millisSinceSettingsOpened)

\* AppState emits 'change' while a listener is registered (with none, no code
\* of the program runs): every registered handleAppStateChange runs; a flow
\* that completes removes its listener, and maybeRequestPermission continues
\* up to await ask()
handleAppStateChange(nextAppState) ==
    /\ \E c \in CallIds : call[c].listening
    /\ nextAppState # appState
    /\ appState' = nextAppState
    /\ call' = [c \in CallIds |->
          IF FlowCompletes(c, nextAppState)
          THEN [call[c] EXCEPT !.listening = FALSE, !.settingsDone = TRUE,
                               !.millisSinceSettingsOpened = 0,
                               !.pc = "ask", !.asks = @ + 1]
          ELSE IF call[c].listening /\ nextAppState = "active"
          THEN [call[c] EXCEPT !.ignoredActive = TRUE]
          ELSE call[c]]
    /\ UNCHANGED <<inputs, mountStatus, savedState, twinState, savedIsAutoRequest,
                   forceUpdates, nextCall>>

\* ---------------------------------------------------------------------- ask

\* await ask() returns a response with this status
AskResolves(c, status) ==
    /\ call[c].pc = "ask"
    /\ LET locals == [call[c] EXCEPT !.askResponse = status,
                                     !.ignoredActive = FALSE]
       IN  IF status = DENIED /\ ShowsSettingFailure(call[c].checkResponse) THEN
               /\ call' = [call EXCEPT ![c] =
                      [locals EXCEPT !.pc = "dialog", !.dialogs = @ + 1]]
               /\ UNCHANGED <<savedState, twinState, forceUpdates>>
           ELSE
               setStateAndResolve(c, StateAfterAsk(status),
                                  ReportsAfterAsk(status), locals)
    /\ UNCHANGED <<inputs, mountStatus, savedIsAutoRequest, appState, nextCall>>

\* await ask() throws
AskRejects(c) ==
    /\ call[c].pc = "ask"
    /\ setStateAndResolve(c, UnexpectedError, 1,
                          [call[c] EXCEPT !.failure = "ask",
                                          !.ignoredActive = FALSE])
    /\ UNCHANGED <<inputs, mountStatus, savedIsAutoRequest, appState, nextCall>>

\* the user dismisses the "setting was not enabled" BasicModal
DialogDismissed(c) ==
    /\ call[c].pc = "dialog"
    /\ setStateAndResolve(c, Denied, 0, [call[c] EXCEPT !.dialogDone = TRUE])
    /\ UNCHANGED <<inputs, mountStatus, savedIsAutoRequest, appState, nextCall>>

\* ------------------------------------------------------------ specification
Next ==
    \/ Request
    \/ requestOnMount
    \/ Unmount
    \/ \E c \in CallIds, resp \in PermissionResponse : CheckResolves(c, resp)
    \/ \E c \in CallIds : CheckRejects(c)
    \/ \E c \in CallIds : AssetsLoaded(c)
    \/ \E c \in CallIds : AssetsFail(c)
    \/ \E c \in CallIds : goToSettings(c)
    \/ \E d \in TickSteps : Tick(d)
    \/ \E s \in AppStateStatus : handleAppStateChange(s)
    \/ \E c \in CallIds, status \in AskStatus : AskResolves(c, status)
    \/ \E c \in CallIds : AskRejects(c)
    \/ \E c \in CallIds : DialogDismissed(c)

Spec == Init /\ [][Next]_vars

TypeOK ==
    /\ autoRequest \in BOOLEAN
    /\ noRender \in BOOLEAN
    /\ mountStatus \in {"rendered", "mounted", "unmounted"}
    /\ savedState \in PermissionState
    /\ twinState \in PermissionState
    /\ savedIsAutoRequest \in BOOLEAN
    /\ forceUpdates \in Nat
    /\ appState \in AppStateStatus
    /\ nextCall \in 1..(MaxCalls + 1)
    /\ \A c \in CallIds :
          /\ call[c].pc \in Positions
          /\ call[c].result \in PermissionState \cup {Pending}
          /\ (c >= nextCall) <=> (call[c].pc = "idle")
\* ------------------------------------------------------------------ helpers

\* this step is a call of request() (from a caller or from the mount effect)
RequestCalled == nextCall' = nextCall + 1

\* this step calls neither check() nor ask()
NoProviderCall ==
    \A c \in CallIds : /\ call'[c].checks = call[c].checks
                       /\ call'[c].asks = call[c].asks

\* this step resolves the promise of call c
Resolving(c) == call[c].pc # "resolved" /\ call'[c].pc = "resolved"

\* the calls whose acquisition sequence is suspended at some await
Acquiring == {c \in CallIds : call[c].pc \in InFlight}

\* ----------------------------------------------------------------------- C1
\* C1: a request() made while the state is Granted leaves the state Granted,
\* calls neither check() nor ask(), and resolves at once with Granted.
C1_GrantedRequestIsNoOp ==
    [][(RequestCalled /\ savedState = Granted) =>
          /\ savedState' = Granted
          /\ NoProviderCall
          /\ call'[nextCall].pc = "resolved"
          /\ call'[nextCall].result = Granted
          /\ ~call'[nextCall].acquired]_vars

\* a call that was made in state Granted and was answered without acquiring
C1_Witness ==
    \E c \in CallIds :
        /\ call[c].pc = "resolved"
        /\ ~call[c].acquired
        /\ call[c].result = Granted

\* ----------------------------------------------------------------------- C2
\* C2: at most one acquisition sequence is in flight at any time, and a
\* request() made while one is in flight starts none, makes no provider call
\* and resolves at once with Requesting.
C2_SingleAcquisition ==
    [][/\ Cardinality(Acquiring') <= 1
       /\ (RequestCalled /\ Acquiring # {}) =>
             /\ Acquiring' = Acquiring
             /\ NoProviderCall
             /\ savedState' = savedState
             /\ call'[nextCall].pc = "resolved"
             /\ call'[nextCall].result = Requesting]_vars

\* a later call answered with Requesting while an earlier one is still in flight
C2_Witness ==
    \E c, d \in CallIds :
        /\ c < d
        /\ call[c].pc \in InFlight
        /\ call[d].pc = "resolved"
        /\ call[d].result = Requesting
        /\ ~call[d].acquired

\* ----------------------------------------------------------------------- C3
\* C3: every call of request() settles: a started call is either suspended at
\* a step that can still complete or has resolved, and a call one of whose
\* steps failed has resolved with UnexpectedError.
C3_RequestAlwaysSettles ==
    \A c \in CallIds :
        /\ call[c].pc # "idle" => call[c].pc \in InFlight \cup {"resolved"}
        /\ call[c].failure # None =>
              /\ call[c].pc = "resolved"
              /\ call[c].result = UnexpectedError

\* ----------------------------------------------------------------------- C4
\* C4: a call resolves with the value savedState holds at that instant; a call
\* that ran an acquisition resolves with Granted, Denied or UnexpectedError,
\* and no call resolves with NotYetRequested.
C4_ResolvesWithCurrentState ==
    [][\A c \in CallIds : Resolving(c) =>
          /\ call'[c].result = savedState'
          /\ call'[c].result # NotYetRequested
          /\ call'[c].acquired =>
                call'[c].result \in {Granted, Denied, UnexpectedError}]_vars

\* an acquisition that has resolved with Denied while the state is Denied
C4_Witness ==
    \E c \in CallIds :
        /\ call[c].pc = "resolved"
        /\ call[c].acquired
        /\ call[c].result = Denied
        /\ savedState = Denied
\* ----------------------------------------------------------------------- C5
\* the check of call c has returned a response
Checked(c) == call[c].checkResponse.status # None

\* ask() of call c has returned a response
Asked(c) == call[c].askResponse # None

\* C5: when check() raises, or ask() raises after a check that was not
\* granted, the sequence ends in UnexpectedError, the call resolves with
\* UnexpectedError, exactly one report was sent for it, and after a failed
\* check ask() is never called.
C5_ProviderFailure ==
    /\ [](\A c \in CallIds : call[c].failure \in {"check", "ask"} =>
            /\ call[c].pc = "resolved"
            /\ call[c].result = UnexpectedError
            /\ call[c].reports = 1
            /\ call[c].failure = "check" => call[c].asks = 0
            /\ call[c].failure = "ask" =>
                  Checked(c) /\ call[c].checkResponse.status # GRANTED)
    /\ [][\A c \in CallIds :
            (call[c].failure = None /\ call'[c].failure \in {"check", "ask"}) =>
                savedState' = UnexpectedError]_vars

\* one call whose check() raised and another whose ask() raised
C5_Witness ==
    \E c, d \in CallIds :
        /\ call[c].failure = "check" /\ call[c].pc = "resolved"
        /\ call[d].failure = "ask" /\ call[d].pc = "resolved"

\* ----------------------------------------------------------------------- C6
\* C6: when ask() returns a status that is neither granted nor denied, exactly
\* one report is sent and the sequence ends in UnexpectedError, whatever
\* canAskAgain the check had.
C6_AnomalousAskStatus ==
    /\ [](\A c \in CallIds :
            (Asked(c) /\ call[c].askResponse \notin {GRANTED, DENIED}) =>
                /\ call[c].pc = "resolved"
                /\ call[c].result = UnexpectedError
                /\ call[c].reports = 1)
    /\ [][\A c \in CallIds :
            (~Asked(c) /\ Asked(c)' /\ call'[c].askResponse \notin {GRANTED, DENIED}) =>
                savedState' = UnexpectedError]_vars

\* ask() answered undetermined after the settings flow, and an unrecognized
\* value after a check that allowed asking again
C6_Witness ==
    \E c, d \in CallIds :
        /\ call[c].askResponse = UNDETERMINED
        /\ ~call[c].checkResponse.canAskAgain
        /\ call[d].askResponse = "unrecognized"
        /\ call[d].checkResponse.canAskAgain

\* ----------------------------------------------------------------------- C7
\* C7: when check() returns granted, ask() is never called, neither the
\* settings flow nor the dialog is opened, and the sequence ends in Granted.
C7_CheckGranted ==
    /\ [](\A c \in CallIds :
            (Checked(c) /\ call[c].checkResponse.status = GRANTED) =>
                /\ call[c].asks = 0
                /\ call[c].settingsOpens = 0
                /\ call[c].dialogs = 0
                /\ call[c].pc = "resolved"
                /\ call[c].result = Granted)
    /\ [][\A c \in CallIds :
            (~Checked(c) /\ Checked(c)' /\ call'[c].checkResponse.status = GRANTED) =>
                savedState' = Granted]_vars

\* a granted check with canAskAgain unset
C7_Witness ==
    \E c \in CallIds :
        /\ Checked(c)
        /\ call[c].checkResponse = [status |-> GRANTED, canAskAgain |-> FALSE]
        /\ call[c].pc = "resolved"

\* ----------------------------------------------------------------------- C8
\* check() of call c returned denied with canAskAgain unset
DeniedForGood(c) ==
    /\ Checked(c)
    /\ call[c].checkResponse.status = DENIED
    /\ ~call[c].checkResponse.canAskAgain

\* C8: after a check that returned denied with canAskAgain unset, the settings
\* flow is started exactly once, ask() is called only once the flow has
\* completed, and savedState is Requesting for as long as the flow runs.
C8_SettingsFlowBeforeAsk ==
    /\ [](\A c \in CallIds : DeniedForGood(c) =>
            /\ call[c].settingsOpens = 1
            /\ call[c].asks > 0 => call[c].settingsDone
            /\ call[c].pc \in InSettingsFlow => savedState = Requesting)
    /\ [][\A c \in CallIds :
            (DeniedForGood(c) /\ call[c].pc \in InSettingsFlow) =>
                savedState' = savedState]_vars

\* ask() has been called after a completed settings flow
C8_Witness ==
    \E c \in CallIds :
        /\ DeniedForGood(c)
        /\ call[c].settingsDone
        /\ call[c].asks = 1

\* ----------------------------------------------------------------------- C9
\* the check of call c had canAskAgain unset and its ask() returned denied
SettingNotEnabled(c) ==
    /\ Checked(c)
    /\ ~call[c].checkResponse.canAskAgain
    /\ call[c].askResponse = DENIED

\* C9: when the check had canAskAgain unset and ask() returns denied, the
\* dialog is opened exactly once, savedState is Requesting until it is
\* dismissed, and the sequence then ends in Denied.
C9_SettingFailureDialog ==
    /\ [](\A c \in CallIds : SettingNotEnabled(c) =>
            /\ call[c].dialogs = 1
            /\ ~call[c].dialogDone => (call[c].pc = "dialog" /\ savedState = Requesting)
            /\ call[c].dialogDone => (call[c].pc = "resolved" /\ call[c].result = Denied))
    /\ [][\A c \in CallIds :
            (SettingNotEnabled(c) /\ Resolving(c)) => savedState' = Denied]_vars

\* the dialog was shown and dismissed
C9_Witness ==
    \E c \in CallIds :
        /\ SettingNotEnabled(c)
        /\ call[c].dialogDone
        /\ call[c].result = Denied

\* ---------------------------------------------------------------------- C10
\* check() of call c returned a status other than granted with canAskAgain set
MayAskAgain(c) ==
    /\ Checked(c)
    /\ call[c].checkResponse.status # GRANTED
    /\ call[c].checkResponse.canAskAgain

\* C10: after a check that was not granted and has canAskAgain set, neither
\* the settings flow nor the dialog is ever opened; ask() denied ends the
\* sequence in Denied at once and ask() granted ends it in Granted.
C10_NoModalWhenCanAskAgain ==
    /\ [](\A c \in CallIds : MayAskAgain(c) =>
            /\ call[c].settingsOpens = 0
            /\ call[c].dialogs = 0
            /\ call[c].pc \notin InSettingsFlow \cup {"dialog"}
            /\ call[c].askResponse = DENIED =>
                  (call[c].pc = "resolved" /\ call[c].result = Denied)
            /\ call[c].askResponse = GRANTED =>
                  (call[c].pc = "resolved" /\ call[c].result = Granted))
    /\ [][\A c \in CallIds :
            (MayAskAgain(c) /\ Resolving(c) /\ call'[c].askResponse \in {DENIED, GRANTED}) =>
                savedState' = call'[c].result]_vars

\* one sequence that ended in Denied and one that ended in Granted, both
\* after a check with canAskAgain set
C10_Witness ==
    \E c, d \in CallIds :
        /\ MayAskAgain(c) /\ call[c].askResponse = DENIED /\ call[c].result = Denied
        /\ MayAskAgain(d) /\ call[d].askResponse = GRANTED /\ call[d].result = Granted

\* ---------------------------------------------------------------------- C11
\* the calls that were exempted from the busy short-circuit
AutoRequests == {c \in CallIds : call[c].isAutoRequest}

\* this step is the mount effect
Mounting == mountStatus = "rendered" /\ mountStatus' = "mounted"

\* C11: a session with autoRequest starts in Requesting, any other in
\* NotYetRequested; the mount effect of an autoRequest session starts exactly
\* one acquisition, which is not answered as busy although the state is
\* Requesting, and that acquisition calls check() exactly once; without
\* autoRequest the mount effect calls nothing.
C11_AutoRequestAtMount ==
    /\ savedState = (IF autoRequest THEN Requesting ELSE NotYetRequested)
    /\ [](/\ Cardinality(AutoRequests) =
                (IF autoRequest /\ mountStatus # "rendered" THEN 1 ELSE 0)
          /\ \A c \in AutoRequests : call[c].acquired /\ call[c].checks = 1)
    /\ [][Mounting =>
            IF autoRequest
            THEN /\ savedState = Requesting
                 /\ RequestCalled
                 /\ call'[nextCall].pc = "check"
                 /\ call'[nextCall].checks = 1
                 /\ savedState' = Requesting
            ELSE ~RequestCalled /\ NoProviderCall /\ savedState' = savedState]_vars

\* the acquisition started by the mount effect is suspended at check()
C11_Witness ==
    \E c \in CallIds :
        /\ autoRequest
        /\ call[c].isAutoRequest
        /\ call[c].pc = "check"
        /\ call[c].checks = 1
        /\ savedState = Requesting

\* ---------------------------------------------------------------------- C12
\* C12: a request() made while the state is Denied or UnexpectedError (then
\* no acquisition is in flight) starts a fresh acquisition: the state becomes
\* Requesting and check() is called once more.
C12_RetryStartsAcquisition ==
    [][(RequestCalled /\ savedState \in {Denied, UnexpectedError}) =>
          /\ Acquiring = {}
          /\ savedState' = Requesting
          /\ call'[nextCall].pc = "check"
          /\ call'[nextCall].acquired
          /\ call'[nextCall].checks = 1
          /\ Acquiring' = {nextCall}]_vars

\* a retry after a sequence that ended in Denied has reached Granted
C12_Witness ==
    \E c, d \in CallIds :
        /\ c < d
        /\ call[c].acquired /\ call[c].result = Denied
        /\ call[d].acquired /\ call[d].result = Granted
        /\ savedState = Granted

\* ---------------------------------------------------------------------- C13
\* C13 as stated: a request() made while the state is UnexpectedError leaves
\* the state UnexpectedError and calls neither check() nor ask().
C13_UnexpectedErrorAbsorbing ==
    [][(RequestCalled /\ savedState = UnexpectedError) =>
          /\ savedState' = UnexpectedError
          /\ NoProviderCall]_vars

\* C13 as amended: UnexpectedError is not absorbing.  A request() made while
\* the state is UnexpectedError sets the state to Requesting and calls check()
\* once; a request() leaves the state alone without a provider call exactly
\* when the state is Granted, or is Requesting and the call is not the mount
\* effect's.
C13_OnlyGrantedAndBusyAbsorb ==
    [][RequestCalled =>
          /\ savedState = UnexpectedError =>
                /\ savedState' = Requesting
                /\ call'[nextCall].pc = "check"
                /\ call'[nextCall].checks = 1
          /\ (NoProviderCall /\ savedState' = savedState) <=>
                \/ savedState = Granted
                \/ savedState = Requesting /\ ~call'[nextCall].isAutoRequest]_vars

\* a retry after a sequence that ended in UnexpectedError has reached Granted
C13_Witness ==
    \E c, d \in CallIds :
        /\ c < d
        /\ call[c].acquired /\ call[c].result = UnexpectedError
        /\ call[d].acquired /\ call[d].result = Granted

\* ---------------------------------------------------------------------- C14
\* C14: noRender does not change the state machine.  The session and its twin
\* (the same session with the opposite noRender, given the same calls and the
\* same outcomes) hold the same state in every reachable state and resolve
\* every call with the same value; the one with noRender set never calls
\* forceUpdate and returns `state` undefined.
C14_NoRenderSameStateMachine ==
    /\ twinState = savedState
    /\ \A c \in CallIds : call[c].twinResult = call[c].result
    /\ noRender => (forceUpdates = 0 /\ apiState = "undefined")
    /\ ~noRender => apiState = savedState

\* a noRender session that went through Requesting and settled on Denied
C14_Witness ==
    /\ noRender
    /\ savedState = Denied
    /\ forceUpdates = 0
    /\ \E c \in CallIds : call[c].acquired /\ call[c].result = Denied

\* ---------------------------------------------------------------------- C15
\* this step is an AppState 'change' event
AppStateEvent == appState' # appState

\* C15: the settings flow completes on the first 'active' event that comes
\* more than 1000 ms after the settings were opened.  An 'active' event at
\* 1000 ms or less, and every event that is not 'active', leaves the flow
\* waiting with its listener registered; the flow completes by such an event
\* only, once, and its listener is removed in the same step.
C15_ForegroundDebounce ==
    /\ [](\A c \in CallIds :
            /\ call[c].listening <=> call[c].pc = "waiting"
            /\ call[c].settingsDone => (~call[c].listening /\ call[c].asks = 1))
    /\ [][\A c \in CallIds : (call[c].listening /\ AppStateEvent) =>
            IF appState' = "active" /\ call[c].millisSinceSettingsOpened > 1000
            THEN /\ call'[c].settingsDone
                 /\ ~call'[c].listening
                 /\ call'[c].pc = "ask"
            ELSE /\ ~call'[c].settingsDone
                 /\ call'[c].listening
                 /\ call'[c].pc = "waiting"]_vars
    /\ [][\A c \in CallIds : (~call[c].settingsDone /\ call'[c].settingsDone) =>
            /\ call[c].listening
            /\ AppStateEvent
            /\ appState' = "active"
            /\ call[c].millisSinceSettingsOpened > 1000]_vars
    /\ [][\A c \in CallIds : call[c].settingsDone => call'[c].settingsDone]_vars

\* a flow that ignored an early 'active' event and completed on a later one
C15_Witness ==
    \E c \in CallIds :
        /\ call[c].ignoredActive
        /\ call[c].settingsDone
        /\ ~call[c].listening
        /\ call[c].pc = "ask"
        /\ appState = "active"

\* ---------------------------------------------------------------------- C16
\* every continuation of the await at which call c is suspended can run
CanContinue(c) ==
    /\ call[c].pc = "check" =>
          /\ ENABLED CheckRejects(c)
          /\ \A resp \in PermissionResponse : ENABLED CheckResolves(c, resp)
    /\ call[c].pc = "loading" => (ENABLED AssetsLoaded(c) /\ ENABLED AssetsFail(c))
    /\ call[c].pc = "modal" => ENABLED goToSettings(c)
    /\ call[c].pc = "waiting" =>
          \A s \in AppStateStatus \ {appState} : ENABLED handleAppStateChange(s)
    /\ call[c].pc = "ask" =>
          /\ ENABLED AskRejects(c)
          /\ \A status \in AskStatus : ENABLED AskResolves(c, status)
    /\ call[c].pc = "dialog" => ENABLED DialogDismissed(c)

\* C16: an unmount cancels nothing.  After it every suspended step of a
\* sequence can still continue, and a sequence that was in flight at the
\* unmount still writes its final state (calling forceUpdate unless noRender)
\* and resolves its promise with it.
C16_NoCancellation ==
    /\ [](mountStatus = "unmounted" => \A c \in CallIds : CanContinue(c))
    /\ [][\A c \in CallIds : (call[c].unmountedInFlight /\ Resolving(c)) =>
            /\ call'[c].result \in {Granted, Denied, UnexpectedError}
            /\ savedState = Requesting
            /\ savedState' = call'[c].result
            /\ forceUpdates' = forceUpdates + (IF noRender THEN 0 ELSE 1)]_vars
    /\ [][\A c \in CallIds :
            (call[c].unmountedInFlight /\ call[c].pc \in InFlight) =>
                call'[c].pc \in InFlight \cup {"resolved", "rejected"}]_vars

\* a sequence that was in flight at the unmount went on to show the dialog
\* and settled on Denied
C16_Witness ==
    \E c \in CallIds :
        /\ mountStatus = "unmounted"
        /\ call[c].unmountedInFlight
        /\ call[c].dialogDone
        /\ call[c].pc = "resolved"
        /\ savedState = Denied

\* ---------------------------------------------------------------------- C17
\* C17: the exemption from the busy short-circuit is used once.  Only the
\* call made by the mount effect reads the flag as true, the flag is false
\* after every call, and a call from anywhere else made while the state is
\* Requesting is answered Requesting without a provider call.
C17_AutoRequestSingleUse ==
    /\ [](/\ savedIsAutoRequest = FALSE
          /\ Cardinality(AutoRequests) <= 1)
    /\ [][RequestCalled =>
            /\ call'[nextCall].isAutoRequest <=> Mounting
            /\ savedIsAutoRequest' = FALSE
            /\ (~Mounting /\ savedState = Requesting) =>
                  /\ call'[nextCall].pc = "resolved"
                  /\ call'[nextCall].result = Requesting
                  /\ ~call'[nextCall].acquired
                  /\ savedState' = Requesting
                  /\ NoProviderCall]_vars

\* a manual call answered as busy while the auto-started sequence is in flight
C17_Witness ==
    \E c, d \in CallIds :
        /\ c < d
        /\ call[c].isAutoRequest
        /\ call[c].pc \in InFlight
        /\ call[d].pc = "resolved"
        /\ ~call[d].isAutoRequest
        /\ call[d].result = Requesting

\* ---------------------------------------------------------------------- C18
\* the changes of value of savedState.current that call c has made so far:
\* one when it entered Requesting from another state, one when it settled
ValueChanges(c) ==
    (IF call[c].acquired /\ ~call[c].isAutoRequest THEN 1 ELSE 0)
    + (IF call[c].acquired /\ call[c].pc = "resolved" THEN 1 ELSE 0)

RECURSIVE TotalValueChanges(_)
TotalValueChanges(S) ==
    IF S = {} THEN 0
    ELSE LET c == CHOOSE x \in S : TRUE
         IN  ValueChanges(c) + TotalValueChanges(S \ {c})

\* C18: forceUpdate() is called exactly in the steps that change the value of
\* savedState.current in a session without noRender, once per such step; a
\* write of the value already held (the Requesting write of the auto-request
\* sequence, the short-circuits) calls none.  Without noRender the number of
\* calls equals the number of changes of value.
C18_ForceUpdateOnChangeOnly ==
    /\ [][forceUpdates' = forceUpdates +
            (IF savedState' # savedState /\ ~noRender THEN 1 ELSE 0)]_vars
    /\ [](~noRender => forceUpdates = TotalValueChanges(CallIds))

\* the auto-request sequence has written Requesting over Requesting and is
\* suspended at check(): no forceUpdate() yet, in a session without noRender
C18_Witness ==
    \E c \in CallIds :
        /\ ~noRender
        /\ call[c].isAutoRequest
        /\ call[c].pc = "check"
        /\ forceUpdates = 0

\* ---------------------------------------------------------------------- C19
\* C19: while a provider call, the settings flow or the dialog of a sequence
\* is pending the state is Requesting; a sequence calls check() exactly once
\* and ask() at most once, and ask() only after check() has returned a status
\* other than granted; a call that ran no sequence calls neither.
C19_PendingMeansRequesting ==
    \A c \in CallIds :
        /\ call[c].pc \in InFlight => savedState = Requesting
        /\ call[c].acquired => call[c].checks = 1
        /\ ~call[c].acquired => (call[c].checks = 0 /\ call[c].asks = 0)
        /\ call[c].asks <= 1
        /\ call[c].asks = 1 =>
              /\ Checked(c)
              /\ call[c].checkResponse.status # GRANTED
        /\ call[c].pc = "check" => (~Checked(c) /\ call[c].asks = 0)

\* a sequence suspended at ask() after a check that was not granted
C19_Witness ==
    \E c \in CallIds :
        /\ call[c].pc = "ask"
        /\ call[c].checks = 1
        /\ call[c].asks = 1
        /\ call[c].checkResponse.status = UNDETERMINED
        /\ savedState = Requesting

\* ---------------------------------------------------------------------- C20
\* C20: once the state is Granted it stays Granted and neither check() nor
\* ask() is called any more; once the state is not NotYetRequested it never
\* is NotYetRequested again.
C20_GrantedIsPermanent ==
    /\ [][savedState = Granted => (savedState' = Granted /\ NoProviderCall)]_vars
    /\ [][savedState # NotYetRequested => savedState' # NotYetRequested]_vars
    /\ [](savedState = Granted => Acquiring = {})

\* the state was granted by one sequence and a later call found it Granted
C20_Witness ==
    \E c, d \in CallIds :
        /\ c < d
        /\ call[c].acquired /\ call[c].result = Granted
        /\ ~call[d].acquired /\ call[d].result = Granted
        /\ savedState = Granted
====
